---- MODULE Spec2Model ----
(***************************************************************************)
(* Model of the key-derivation gadget (storage-proofs/src/circuit/kdf.rs)  *)
(* and of the PoSt circuit harness (storage-proofs-post/tests/             *)
(* halo2_circuit.rs) of rust-fil-proofs.                                   *)
(*                                                                         *)
(* Two specifications share the module's variables:                        *)
(*   KdfSpec   one call of kdf, statement by statement, from every input   *)
(*             of the bounded input sets;                                  *)
(*   PostSpec  one run of the Winning / Window PoSt circuit harness.       *)
(* Under one specification the other part's variables keep their idle      *)
(* value.                                                                  *)
(***************************************************************************)
EXTENDS Integers, Sequences, FiniteSets, TLC

VARIABLES
    \* ---- kdf.rs ----
    kpc,          \* position inside kdf
    idBytes,      \* the test's `id: Vec<u8>`
    parentBytes,  \* the test's `parents: Vec<Vec<u8>>`
    nodeRaw,      \* the test's `node_raw`, as an Option<u64>
    hasValues,    \* witness mode (bits carry values) or setup-only
    csKind,       \* "witness": the cs evaluates value closures; "shape": it does not
    id,           \* kdf's `id: &[Boolean]`
    parents,      \* kdf's `parents: Vec<Vec<Boolean>>`
    node,         \* kdf's `node: Option<UInt64>`, as its big-endian bits
    pIdx,         \* position of `for parent in parents.into_iter()`
    ciphertexts,  \* kdf's buffer
    alloc_bits,   \* output of the sha256 gadget
    fr,           \* kdf's `fr: Result<Fr, SynthesisError>`
    out,          \* what kdf returns
    \* ---- halo2_circuit.rs ----
    ppc,            \* position inside the test function
    variant,        \* "winning": test_winning_post_circuit; "window": test_window_post_circuit
    cfg,            \* the test's type parameters U, V, W and SECTOR_NODES
    rng,            \* `rng`
    randomness,     \* `randomness`
    sector_index,   \* `sector_index` of the Window loop (0 in the Winning test)
    replica,        \* `replica`, one entry per 32-byte leaf
    tree_r,         \* `tree_r`, its layers from the leaves to the root
    root_r,         \* `root_r`
    comm_c,         \* `comm_c`
    comm_r,         \* `comm_r`
    challenges,     \* `challenges` of the current sector
    cIdx,           \* position of the iterator over `challenges`
    leafs_r,        \* `leafs_r`
    paths_r,        \* `paths_r`
    pub_inputs,     \* `pub_inputs`
    priv_inputs,    \* `priv_inputs`, as its sector proofs
    pub_inputs_vec, \* `pub_inputs_vec`
    result,         \* what `prover.verify()` reported
    panicMsg,       \* the panic that ended the test, if any
    errors,         \* history: decode and proof-generation failures so far
    tamper          \* history: the change made to the witness before proving

kdfVars == <<kpc, idBytes, parentBytes, nodeRaw, hasValues, csKind, id, parents,
             node, pIdx, ciphertexts, alloc_bits, fr, out>>

postVars == <<ppc, variant, cfg, rng, randomness, sector_index, replica, tree_r, root_r,
              comm_c, comm_r, challenges, cIdx, leafs_r, paths_r, pub_inputs, priv_inputs,
              pub_inputs_vec, result, panicMsg, errors, tamper>>

vars == <<kdfVars, postVars>>

----------------------------------------------------------------------------
(* Bounds of the model *)

\* Largest number of parent labels handed to kdf.
MaxParents == 2

\* Width of the hash output in bytes (SHA-256 has 32; the model keeps the
\* field element inside TLC's integers).
HashBytes == 3

----------------------------------------------------------------------------
(* Values *)

\* A circuit Boolean: get_value() is Some(val) or None.
Bit(b) == [some |-> TRUE, val |-> b]
NoBit == [some |-> FALSE, val |-> 0]

None == [some |-> FALSE, val |-> 0]
Some(v) == [some |-> TRUE, val |-> v]

\* Result<Fr, SynthesisError>
Ok(v) == [tag |-> "Ok", val |-> v, err |-> ""]
Err(e) == [tag |-> "Err", val |-> 0, err |-> e]
\* An AllocatedNum whose value is Some(v) / None, as kdf's Ok result.
OkNum(v) == [tag |-> "Ok", num |-> v, err |-> ""]
ErrNum(e) == [tag |-> "Err", num |-> None, err |-> e]
NotReturned == [tag |-> "Pending", num |-> None, err |-> ""]

Pow2(n) == 2 ^ n

\* Byte strings the tests feed as id and as parent labels.
ByteVals == {0, 1, 178}
Labels == {<<b>> : b \in ByteVals} \cup {<<1, 178>>}
IdSamples == {<<>>} \cup Labels
\* node_raw of kdf_circuit_with_node, and two small indices.
NodeVals == {0, 1, 123456789}

\* The field's safe bit capacity: two bits less than the hash output.
CAPACITY == 8 * HashBytes - 2

----------------------------------------------------------------------------
(* Sequence helpers *)

RECURSIVE Flatten(_)
Flatten(ss) == IF ss = <<>> THEN <<>> ELSE Head(ss) \o Flatten(Tail(ss))

Reverse(s) == [i \in 1..Len(s) |-> s[Len(s) + 1 - i]]

Take(s, n) == SubSeq(s, 1, IF n < Len(s) THEN n ELSE Len(s))

RECURSIVE SeqsUpTo(_, _)
SeqsUpTo(S, n) ==
    IF n = 0 THEN {<<>>}
    ELSE LET shorter == SeqsUpTo(S, n - 1)
         IN shorter \cup {Append(s, x) : s \in {t \in shorter : Len(t) = n - 1}, x \in S}

----------------------------------------------------------------------------
(* Bit conversions *)

\* The w low bits of n, least significant first (n is below 2^31, so the
\* bits from position 31 on are zero).
BitsLE(n, w) == [i \in 1..w |-> IF i > 31 THEN 0 ELSE (n \div Pow2(i - 1)) % 2]

\* The w low bits of n, most significant first.
BitsBE(n, w) == Reverse(BitsLE(n, w))

\* u64::to_be_bytes
ToBeBytes(n) ==
    LET le == BitsLE(n, 64)
        byte(k) == LET b == SubSeq(le, 8 * k + 1, 8 * k + 8)
                   IN b[1] + 2*b[2] + 4*b[3] + 8*b[4] + 16*b[5] + 32*b[6] + 64*b[7] + 128*b[8]
    IN [i \in 1..8 |-> byte(8 - i)]

\* util::bytes_into_boolean_vec_be: every byte most significant bit first;
\* with no value the bits are allocated without one.
BytesIntoBooleanVecBe(bytes, withValue) ==
    LET bits == Flatten([i \in 1..Len(bytes) |-> BitsBE(bytes[i], 8)])
    IN [i \in 1..Len(bits) |-> IF withValue THEN Bit(bits[i]) ELSE NoBit]

\* UInt64::to_bits_be of a constant: 64 bits, most significant first.
UInt64ConstantBitsBe(n) == LET bits == BitsBE(n, 64) IN [i \in 1..64 |-> Bit(bits[i])]
\* UInt64::to_bits_be of an allocation without a value.
UInt64NoValueBitsBe == [i \in 1..64 |-> NoBit]

----------------------------------------------------------------------------
(* The hash collaborator: a fixed-output hash of a bit string.  Byte k of   *)
(* the digest sums a term for every message bit that depends on the bit     *)
(* and on its position, so the digest depends on every bit, on the order    *)
(* of the bits and on the length.                                           *)

DigestTerm(k, bits, i) == (2 * bits[i] + 1) * (1 + ((i * (2 * k + 3) + 5 * k) % 251))

RECURSIVE DigestSum(_, _, _, _)
DigestSum(k, bits, lo, hi) ==
    IF lo > hi THEN 0
    ELSE IF lo = hi THEN DigestTerm(k, bits, lo) % 256
    ELSE LET mid == (lo + hi) \div 2
         IN (DigestSum(k, bits, lo, mid) + DigestSum(k, bits, mid + 1, hi)) % 256

DigestByte(k, bits) == (37 * k + 17 + DigestSum(k, bits, 1, Len(bits))) % 256

\* The plain hash: message bytes in, digest bytes out.
Sha256Digest(bytes) ==
    LET bits == Flatten([i \in 1..Len(bytes) |-> BitsBE(bytes[i], 8)])
    IN [k \in 1..HashBytes |-> DigestByte(k, bits)]

\* The gadget: Booleans in, Booleans out (digest bytes, each most significant
\* bit first).  An output bit has a value only when every input bit has one.
Sha256Circuit(bools) ==
    LET known == \A i \in 1..Len(bools) : bools[i].some
        bits == [i \in 1..Len(bools) |-> bools[i].val]
        digest == Flatten([k \in 1..HashBytes |-> BitsBE(DigestByte(k, bits), 8)])
    IN [i \in 1..(8 * HashBytes) |-> IF known THEN Bit(digest[i]) ELSE NoBit]

----------------------------------------------------------------------------
(* kdf.rs *)

\* be_bits.chunks(8)
RECURSIVE Chunks8(_)
Chunks8(s) ==
    IF s = <<>> THEN <<>>
    ELSE IF Len(s) <= 8 THEN <<s>>
    ELSE <<SubSeq(s, 1, 8)>> \o Chunks8(SubSeq(s, 9, Len(s)))

\* .chunks(8).flat_map(|chunk| chunk.iter().rev()).take(CAPACITY)
LeBitsNoRev(be_bits) == Take(be_bits, CAPACITY)
LeBits(be_bits) ==
    LET chunks == Chunks8(be_bits)
    IN Take(Flatten([c \in 1..Len(chunks) |-> Reverse(chunks[c])]), CAPACITY)

\* multipack::compute_multipacking(bits)[0]: bit i has weight 2^i.
RECURSIVE ComputeMultipacking(_)
ComputeMultipacking(bits) ==
    IF bits = <<>> THEN 0 ELSE Head(bits) + 2 * ComputeMultipacking(Tail(bits))

\* let fr = if alloc_bits[0].get_value().is_some() { ... } else { Err(..) }
PackAlways(bits) ==
    Ok(ComputeMultipacking(LeBits([i \in 1..Len(bits) |-> bits[i].val])))
PackResult(bits) ==
    IF bits[1].some
    THEN Ok(ComputeMultipacking(LeBits([i \in 1..Len(bits) |-> bits[i].val])))
    ELSE Err("AssignmentMissing")

\* AllocatedNum::alloc(cs, || fr): a cs that computes the witness calls the
\* closure and passes its error on; a shape-only cs never calls it.
AllocResult(kind, value) ==
    IF kind = "shape" THEN OkNum(None)
    ELSE IF value.tag = "Err" THEN ErrNum(value.err)
    ELSE OkNum(Some(value.val))

\* crypto::kdf::kdf, the plain function: hash the bytes, clear the bits above
\* the field capacity in the last byte, read the bytes little-endian.
RECURSIVE BytesLE(_)
BytesLE(bytes) == IF bytes = <<>> THEN 0 ELSE Head(bytes) + 256 * BytesLE(Tail(bytes))

PlainKdf(bytes) ==
    LET h == Sha256Digest(bytes)
        safe == [k \in 1..HashBytes |-> IF k = HashBytes THEN h[k] % 64 ELSE h[k]]
    IN BytesLE(safe)

\* The tests' `input_bytes`: id | node (8 big-endian bytes) | parents.
InputBytes ==
    idBytes \o (IF nodeRaw.some THEN ToBeBytes(nodeRaw.val) ELSE <<>>) \o Flatten(parentBytes)

\* The harness part at rest, while kdf runs.
PostIdle ==
    /\ ppc = "idle" /\ variant = "none" /\ cfg = <<>> /\ rng = 0 /\ randomness = 0
    /\ sector_index = 0 /\ replica = <<>> /\ tree_r = <<>> /\ root_r = 0
    /\ comm_c = 0 /\ comm_r = 0 /\ challenges = <<>> /\ cIdx = 0 /\ leafs_r = <<>>
    /\ paths_r = <<>> /\ pub_inputs = <<>> /\ priv_inputs = <<>> /\ pub_inputs_vec = <<>>
    /\ result = "none" /\ panicMsg = "" /\ errors = 0 /\ tamper = <<>>

\* kdf at rest, while the harness runs.
KdfIdle ==
    /\ kpc = "idle" /\ idBytes = <<>> /\ parentBytes = <<>> /\ nodeRaw = None
    /\ hasValues = FALSE /\ csKind = "none" /\ id = <<>> /\ parents = <<>> /\ node = None
    /\ pIdx = 0 /\ ciphertexts = <<>> /\ alloc_bits = <<>> /\ fr = Err("unset")
    /\ out = NotReturned

KdfInit ==
    /\ PostIdle
    /\ idBytes \in IdSamples
    /\ parentBytes \in SeqsUpTo(Labels, MaxParents)
    /\ nodeRaw \in {None} \cup {Some(n) : n \in NodeVals}
    /\ hasValues \in BOOLEAN
    /\ csKind \in {"witness", "shape"}
    /\ id = BytesIntoBooleanVecBe(idBytes, hasValues)
    /\ parents = [i \in 1..Len(parentBytes) |-> BytesIntoBooleanVecBe(parentBytes[i], hasValues)]
    /\ node = IF nodeRaw.some
              THEN Some(IF hasValues THEN UInt64ConstantBitsBe(nodeRaw.val)
                        ELSE UInt64NoValueBitsBe)
              ELSE None
    /\ kpc = "start"
    /\ pIdx = 0
    /\ ciphertexts = <<>>
    /\ alloc_bits = <<>>
    /\ fr = Err("unset")
    /\ out = NotReturned

kdfInputs == <<idBytes, parentBytes, nodeRaw, hasValues, csKind, id, parents, node>>

\* let mut ciphertexts = id.to_vec();
KdfCopyId ==
    /\ kpc = "start"
    /\ ciphertexts' = id
    /\ kpc' = "node"
    /\ UNCHANGED <<kdfInputs, pIdx, alloc_bits, fr, out, postVars>>

\* if let Some(node) = node { ciphertexts.extend_from_slice(&node.to_bits_be()); }
ExtendNodeSkipZero(buf, n) ==
    IF n.some /\ (\E i \in 1..Len(n.val) : n.val[i].val # 0) THEN buf \o n.val ELSE buf
ExtendNodeLE(buf, n) == IF n.some THEN buf \o Reverse(n.val) ELSE buf
ExtendNode(buf, n) == IF n.some THEN buf \o n.val ELSE buf

KdfNode ==
    /\ kpc = "node"
    /\ ciphertexts' = ExtendNode(ciphertexts, node)
    /\ kpc' = "parents"
    /\ pIdx' = 0
    /\ UNCHANGED <<kdfInputs, alloc_bits, fr, out, postVars>>

\* for parent in parents.into_iter() { ciphertexts.extend_from_slice(&parent); }
ExtendParentFront(buf, parent) == parent \o buf
ExtendParent(buf, parent) == buf \o parent

KdfParent ==
    /\ kpc = "parents"
    /\ pIdx < Len(parents)
    /\ ciphertexts' = ExtendParent(ciphertexts, parents[pIdx + 1])
    /\ pIdx' = pIdx + 1
    /\ UNCHANGED <<kdfInputs, kpc, alloc_bits, fr, out, postVars>>

\* let alloc_bits = sha256_circuit(cs.namespace(|| "hash"), &ciphertexts[..])?;
KdfHash ==
    /\ kpc = "parents"
    /\ pIdx = Len(parents)
    /\ alloc_bits' = Sha256Circuit(ciphertexts)
    /\ kpc' = "pack"
    /\ UNCHANGED <<kdfInputs, pIdx, ciphertexts, fr, out, postVars>>

\* let fr = if ... { Ok(compute_multipacking(&le_bits)[0]) } else { Err(AssignmentMissing) };
KdfPack ==
    /\ kpc = "pack"
    /\ fr' = PackResult(alloc_bits)
    /\ kpc' = "alloc"
    /\ UNCHANGED <<kdfInputs, pIdx, ciphertexts, alloc_bits, out, postVars>>

\* num::AllocatedNum::<E>::alloc(cs.namespace(|| "result_num"), || fr)
KdfAlloc ==
    /\ kpc = "alloc"
    /\ out' = AllocResult(csKind, fr)
    /\ kpc' = "done"
    /\ UNCHANGED <<kdfInputs, pIdx, ciphertexts, alloc_bits, fr, postVars>>

KdfNext ==
    \/ KdfCopyId
    \/ KdfNode
    \/ KdfParent
    \/ KdfHash
    \/ KdfPack
    \/ KdfAlloc

KdfSpec == KdfInit /\ [][KdfNext]_vars

\* cs.is_satisfied() after kdf: the constraints kdf adds are the hash
\* gadget's, which tie its output bits to the buffer's bits; every bit they
\* mention must be assigned.  The result number is allocated unconstrained.
KdfConstraintsSatisfied ==
    /\ \A i \in 1..Len(ciphertexts) : ciphertexts[i].some
    /\ \A i \in 1..Len(alloc_bits) : alloc_bits[i].some
    /\ alloc_bits = Sha256Circuit(ciphertexts)

\* The buffer kdf hashes, as one expression: lines 25-33 applied in order.
RECURSIVE ExtendParents(_, _, _)
ExtendParents(buf, ps, i) ==
    IF i > Len(ps) THEN buf ELSE ExtendParents(ExtendParent(buf, ps[i]), ps, i + 1)

KdfBuffer(idBits, n, ps) == ExtendParents(ExtendNode(idBits, n), ps, 1)

----------------------------------------------------------------------------
(* Claims about kdf, checked under KdfSpec *)

Hashed == kpc \in {"pack", "alloc", "done"}
Packed == kpc \in {"alloc", "done"}
Returned == kpc = "done"

RECURSIVE SumLens(_, _)
SumLens(ps, i) == IF i > Len(ps) THEN 0 ELSE Len(ps[i]) + SumLens(ps, i + 1)

\* Offset of parent j's first bit in the hashed buffer, less one.
ParentOffset(j) == Len(id) + (IF node.some THEN 64 ELSE 0) + SumLens(SubSeq(parents, 1, j - 1), 1)

\* Bit i (1..64, most significant first) of a 64-bit index below 2^31.
NodeBitBE(n, i) == IF i <= 33 THEN 0 ELSE (n \div Pow2(64 - i)) % 2

\* C3: with values present and a cs that computes the witness, kdf returns Ok,
\* the value of its field element is the plain key-derivation function of
\* the bytes id | node (8 big-endian bytes, if present) | parents, and the
\* constraints are satisfied.
C3_CircuitEqualsPlain ==
    (Returned /\ hasValues /\ csKind = "witness")
        => /\ out.tag = "Ok"
           /\ out.num = Some(PlainKdf(InputBytes))
           /\ KdfConstraintsSatisfied

C3_Witness ==
    /\ Returned /\ hasValues /\ csKind = "witness"
    /\ nodeRaw = Some(123456789)
    /\ Len(parentBytes) = 2
    /\ idBytes = <<1, 178>>
    /\ out.num = Some(PlainKdf(InputBytes))
    /\ KdfConstraintsSatisfied

\* C5: for the state's id and parents, the buffer hashed with no node index
\* and the buffer hashed with node index zero differ: the second is 64 bits
\* longer and holds 64 zero bits right after id.
C5_AbsentNodeDiffersFromZero ==
    LET zero == Some(UInt64ConstantBitsBe(0))
        absent == KdfBuffer(id, None, parents)
        present == KdfBuffer(id, zero, parents)
    IN Hashed =>
        /\ absent # present
        /\ Len(present) = Len(absent) + 64
        /\ (~node.some => ciphertexts = absent /\ ciphertexts # present)
        /\ ((node.some /\ nodeRaw.val = 0 /\ hasValues) =>
                /\ ciphertexts = present
                /\ ciphertexts # absent
                /\ \A i \in 1..64 : ciphertexts[Len(id) + i] = Bit(0))

C5_Witness ==
    /\ Hashed /\ hasValues
    /\ nodeRaw = Some(0)
    /\ Len(parents) = 1
    /\ Len(ciphertexts) = Len(id) + 64 + Len(parents[1])

\* C8: the hashed buffer is id, then the 64 big-endian bits of the node index
\* when one is given, then every parent in the order supplied; its length is
\* |id| + (64 if node present else 0) + the sum of the parents' lengths.
C8_BufferLayout ==
    Hashed =>
        /\ Len(ciphertexts) = Len(id) + (IF node.some THEN 64 ELSE 0) + SumLens(parents, 1)
        /\ \A i \in 1..Len(id) : ciphertexts[i] = id[i]
        /\ (node.some => \A i \in 1..64 :
                ciphertexts[Len(id) + i] =
                    (IF hasValues THEN Bit(NodeBitBE(nodeRaw.val, i)) ELSE NoBit))
        /\ \A j \in 1..Len(parents) : \A i \in 1..Len(parents[j]) :
                ciphertexts[ParentOffset(j) + i] = parents[j][i]

C8_Witness ==
    /\ Hashed /\ hasValues
    /\ nodeRaw = Some(123456789)
    /\ parentBytes = << <<1, 178>>, <<1>> >>
    /\ idBytes = <<178>>
    /\ Len(ciphertexts) = 8 + 64 + 16 + 8

\* The hash output bits h[0..n) of the state, as numbers.
HashBit(i) == alloc_bits[i + 1].val

\* Sum over i < n of h[8*(i div 8) + 7 - (i mod 8)] * 2^i.
RECURSIVE RepackedValue(_, _)
RepackedValue(i, n) ==
    IF i >= n THEN 0
    ELSE HashBit(8 * (i \div 8) + 7 - (i % 8)) * Pow2(i) + RepackedValue(i + 1, n)

\* C9: the packed value is the sum, over the first CAPACITY repacked bits, of
\* bit i times 2^i, where repacked bit 8k+j is hash bit 8k+7-j; it is below
\* 2^CAPACITY, so no bit beyond CAPACITY takes part.
C9_RepackLittleEndian ==
    (Packed /\ fr.tag = "Ok") =>
        /\ fr.val = RepackedValue(0, CAPACITY)
        /\ fr.val < Pow2(CAPACITY)

\* A packed state whose hash output has a set bit beyond CAPACITY (the two
\* leading bits of the last byte) and a byte that differs from its mirror image.
C9_Witness ==
    /\ Packed /\ fr.tag = "Ok"
    /\ HashBit(8 * (HashBytes - 1)) = 1
    /\ HashBit(8 * (HashBytes - 1) + 1) = 1
    /\ \E k \in 0..(HashBytes - 1) : \E j \in 0..7 : HashBit(8 * k + j) # HashBit(8 * k + 7 - j)
    /\ fr.val = RepackedValue(0, CAPACITY)

HashHasValues == \A i \in 1..Len(alloc_bits) : alloc_bits[i].some
HashHasNoValue == \A i \in 1..Len(alloc_bits) : ~alloc_bits[i].some

----------------------------------------------------------------------------
(* halo2_circuit.rs: the Winning and Window PoSt circuit tests *)

\* Bounds of the model.
\* Seeds the rng starts from (the tests use the one TEST_SEED).
MaxSeed == 2
\* Challenges per sector of a Winning and of a Window proof.
WinningChallengeCount == 2
WindowChallengeCount == 2
\* window::sectors_challenged_per_partition
SectorsPerPartition == 2
\* Bits of a leaf's representation; the field is the prime 2^FieldBits - 3.
FieldBits == 4

\* Bytes of a leaf in the replica: `c << 5`, `start + 32`.
LeafBytes == 32

FieldModulus == Pow2(FieldBits) - 3

\* The type parameters of the eight tests: <U, V, W, SECTOR_NODES>.
Configs ==
    { [U |-> 8, V |-> 0, W |-> 0, nodes |-> 64],
      [U |-> 8, V |-> 2, W |-> 0, nodes |-> 128],
      [U |-> 8, V |-> 8, W |-> 0, nodes |-> 512],
      [U |-> 8, V |-> 8, W |-> 2, nodes |-> 1024] }

NoTamper == [kind |-> "none", sector |-> 0, orig |-> <<>>]

\* ---- the rng: a counter whose draws are mixed ----
Mix(s) == (((s * 7919 + 13) % 65521) * 31 + s) % 65521
\* F::random(&mut rng)
RandomField(s) == Mix(s) % FieldModulus

\* ---- the hasher (Poseidon): a hash of a list of field elements in which
\* every argument has its own nonzero weight, so that changing one argument
\* changes the hash and exchanging two different arguments changes it too.
RECURSIVE WeightedSum(_, _)
WeightedSum(xs, i) == IF i > Len(xs) THEN 0 ELSE i * xs[i] + WeightedSum(xs, i + 1)

Hash(xs) == (Len(xs) + WeightedSum(xs, 1)) % FieldModulus
\* <PoseidonHasher as Hasher>::Function::hash2
Hash2(a, b) == Hash(<<a, b>>)

\* ---- the tree ----
Max1(n) == IF n = 0 THEN 1 ELSE n

\* Levels of a tree of arity `a` over `n` leaves.
RECURSIVE Height(_, _)
Height(n, a) == IF n <= 1 THEN 0 ELSE 1 + Height(n \div a, a)

\* The arity of every level, bottom up: the base tree's levels, then the sub
\* tree's level and the top tree's level when they exist.
LevelArities(c) ==
    LET baseLeaves == c.nodes \div (Max1(c.V) * Max1(c.W))
    IN [l \in 1..Height(baseLeaves, c.U) |-> c.U]
        \o (IF c.V > 0 THEN <<c.V>> ELSE <<>>)
        \o (IF c.W > 0 THEN <<c.W>> ELSE <<>>)

\* Leaves below one node of level l (level 0 holds the leaves).
RECURSIVE Stride(_, _)
Stride(ars, l) == IF l = 0 THEN 1 ELSE ars[l] * Stride(ars, l - 1)

\* The layer above `layer`, hashing groups of `a` nodes.
NextLayer(layer, a) ==
    [j \in 1..(Len(layer) \div a) |-> Hash(SubSeq(layer, (j - 1) * a + 1, j * a))]

RECURSIVE BuildLayers(_, _, _)
BuildLayers(layers, ars, l) ==
    IF l > Len(ars) THEN layers
    ELSE BuildLayers(Append(layers, NextLayer(layers[Len(layers)], ars[l])), ars, l + 1)

\* merkle::generate_tree: random field elements as leaves, the replica their
\* bytes, the tree built over them.
GenerateTreeLeaves(s, n) == [i \in 1..n |-> RandomField(s + i)]
GenerateTreeLayers(leaves, c) == BuildLayers(<<leaves>>, LevelArities(c), 1)

\* tree_r.root()
TreeRoot(layers) == layers[Len(layers)][1]

\* tree_r.gen_proof(c): per level the siblings of the node on the way up, in
\* their order, and the node's place among them.  It fails for a leaf index
\* out of range and when the tree's store cannot be read.
GenProof(layers, ars, c, storeOk) ==
    IF c < 0 \/ c >= Len(layers[1]) THEN Err("MerkleProofError: out of range")
    ELSE IF ~storeOk THEN Err("MerkleProofError: store")
    ELSE Ok([l \in 1..Len(ars) |->
            LET idx == c \div Stride(ars, l - 1)
                pos == idx % ars[l]
                first == idx - pos
            IN [siblings |-> [k \in 1..(ars[l] - 1) |->
                                 layers[l][first + (IF k - 1 < pos THEN k ELSE k + 1)]],
                index |-> pos]])

\* merkle_proof.path().iter().map(|(siblings, _)| siblings...)
PathSiblings(path) == [l \in 1..Len(path) |-> path[l].siblings]

\* ---- challenges ----
ChallengeDigest(r, sectorId, challengeIndex) ==
    ((r + 3) * 7919 + (sectorId + 1) * 104729 + (challengeIndex + 1) * 1299709) % 1000003

\* winning::generate_challenges(randomness, sector_id, k)
WinningGenerateChallenges(r, sectorId, k, nodes) ==
    [i \in 1..WinningChallengeCount |->
        ChallengeDigest(r, sectorId, k * WinningChallengeCount + i - 1) % nodes]

\* window::generate_challenges(randomness, sector_index, sector_id, k)
WindowGenerateChallenges(r, sectorIndex, sectorId, k, nodes) ==
    [i \in 1..WindowChallengeCount |->
        ChallengeDigest(r, sectorId,
            (k * SectorsPerPartition + sectorIndex) * WindowChallengeCount + i - 1) % nodes]

\* ---- the harness's own steps ----
\* let start = c << 5;
LeafStartShift6(c) == c * 64
LeafStart(c) == c * 32

\* &replica[start..start + 32]: the slice, or a panic when it leaves the replica.
ReplicaSlice(rep, start) ==
    IF start + LeafBytes <= Len(rep) * LeafBytes
    THEN Some(rep[(start \div LeafBytes) + 1])
    ELSE None

\* F::from_repr_vartime(repr): only a canonical representation decodes.
FromReprVartime(repr) == IF repr < FieldModulus THEN Some(repr) ELSE None

\* .unwrap_or_else(|| panic!("leaf bytes are not a valid field element ..."))
LeafOrPanic(decoded) == [panic |-> ~decoded.some, leaf |-> decoded.val]

\* .unwrap_or_else(|_| panic!("failed to generate merkle proof ..."))
ProofOrEmpty(res) ==
    [panic |-> FALSE, path |-> IF res.tag = "Ok" THEN PathSiblings(res.val) ELSE <<>>]
ProofOrPanic(res) ==
    [panic |-> res.tag # "Ok", path |-> IF res.tag = "Ok" THEN PathSiblings(res.val) ELSE <<>>]

\* Hash::hash2(&comm_c.into(), &root_r)
CommRSwapped(c, r) == Hash2(r, c)
CommR(c, r) == Hash2(c, r)

\* The test's variant-dependent constants.
ChallengeCount == IF variant = "winning" THEN WinningChallengeCount ELSE WindowChallengeCount
SectorCount == IF variant = "winning" THEN 1 ELSE SectorsPerPartition
PartitionIndex == 0
SectorId == sector_index

SectorChallenges(r, si) ==
    IF variant = "winning"
    THEN WinningGenerateChallenges(r, 0, PartitionIndex, cfg.nodes)
    ELSE WindowGenerateChallenges(r, si, si, PartitionIndex, cfg.nodes)

\* SectorProof { comm_c, root_r, leafs_r, paths_r }
SectorProof(cc, rr, leafs, paths) ==
    [comm_c |-> cc, root_r |-> rr, leafs_r |-> leafs, paths_r |-> paths]

\* PublicInputs::to_vec: per sector its comm_r, then its challenges.
ToVec(pub) ==
    Flatten([s \in 1..Len(pub.comms_r) |-> <<pub.comms_r[s]>> \o pub.challenges[s]])

PostInit ==
    /\ KdfIdle
    /\ ppc = "start"
    /\ variant \in {"winning", "window"}
    /\ cfg \in Configs
    /\ rng \in {10000 * s : s \in 1..MaxSeed}
    /\ randomness = 0 /\ sector_index = 0
    /\ replica = <<>> /\ tree_r = <<>> /\ root_r = 0 /\ comm_c = 0 /\ comm_r = 0
    /\ challenges = <<>> /\ cIdx = 0 /\ leafs_r = <<>> /\ paths_r = <<>>
    /\ pub_inputs = [comms_r |-> <<>>, challenges |-> <<>>]
    /\ priv_inputs = <<>>
    /\ pub_inputs_vec = <<>>
    /\ result = "none" /\ panicMsg = "" /\ errors = 0
    /\ tamper = NoTamper

\* let randomness = F::random(&mut rng);
DrawRandomness ==
    /\ ppc = "start"
    /\ randomness' = RandomField(rng)
    /\ rng' = rng + 1
    /\ ppc' = "generate_tree"
    /\ UNCHANGED <<variant, cfg, sector_index, replica, tree_r, root_r, comm_c, comm_r,
                   challenges, cIdx, leafs_r, paths_r, pub_inputs, priv_inputs,
                   pub_inputs_vec, result, panicMsg, errors, tamper, kdfVars>>

\* Sector data that does not belong to the tree: the replica with the leaf at
\* `bad` (when there is one) overwritten by bytes that are no field element.
ReplicaOf(leaves, bad) ==
    [i \in 1..Len(leaves) |-> IF bad.some /\ bad.val = i - 1 THEN FieldModulus ELSE leaves[i]]

\* The overwritten leaves worth telling apart: those the sector's challenges read.
BadLeafChoices ==
    LET cs == SectorChallenges(randomness, sector_index)
    IN {None} \cup {Some(cs[i]) : i \in 1..Len(cs)}

\* let (replica, tree_r) = generate_tree(&mut rng, SECTOR_NODES, ...);
GenerateTree ==
    /\ ppc = "generate_tree"
    /\ \E bad \in BadLeafChoices :
        LET leaves == GenerateTreeLeaves(rng, cfg.nodes)
        IN /\ replica' = ReplicaOf(leaves, bad)
           /\ tree_r' = GenerateTreeLayers(leaves, cfg)
    /\ rng' = rng + cfg.nodes
    /\ ppc' = "commit"
    /\ UNCHANGED <<variant, cfg, randomness, sector_index, root_r, comm_c, comm_r,
                   challenges, cIdx, leafs_r, paths_r, pub_inputs, priv_inputs,
                   pub_inputs_vec, result, panicMsg, errors, tamper, kdfVars>>

\* let root_r = tree_r.root(); let comm_c = F::random(&mut rng);
\* let comm_r = hash2(&comm_c.into(), &root_r);
Commit ==
    /\ ppc = "commit"
    /\ root_r' = TreeRoot(tree_r)
    /\ comm_c' = RandomField(rng)
    /\ rng' = rng + 1
    /\ comm_r' = CommR(comm_c', root_r')
    /\ ppc' = "challenges"
    /\ UNCHANGED <<variant, cfg, randomness, sector_index, replica, tree_r,
                   challenges, cIdx, leafs_r, paths_r, pub_inputs, priv_inputs,
                   pub_inputs_vec, result, panicMsg, errors, tamper, kdfVars>>

\* let challenges = winning::generate_challenges(randomness, sector_id, k);
WinningChallenges ==
    /\ ppc = "challenges"
    /\ variant = "winning"
    /\ challenges' = WinningGenerateChallenges(randomness, SectorId, PartitionIndex, cfg.nodes)
    /\ cIdx' = 0
    /\ leafs_r' = <<>>
    /\ paths_r' = <<>>
    /\ ppc' = "read_leaf"
    /\ UNCHANGED <<variant, cfg, rng, randomness, sector_index, replica, tree_r, root_r,
                   comm_c, comm_r, pub_inputs, priv_inputs, pub_inputs_vec, result,
                   panicMsg, errors, tamper, kdfVars>>

\* let challenges = window::generate_challenges(randomness, sector_index, sector_id, k);
\* pub_inputs.comms_r.push(comm_r); pub_inputs.challenges.push(challenges);
WindowChallenges ==
    /\ ppc = "challenges"
    /\ variant = "window"
    /\ challenges' = WindowGenerateChallenges(randomness, sector_index, SectorId,
                                              PartitionIndex, cfg.nodes)
    /\ pub_inputs' = [comms_r |-> Append(pub_inputs.comms_r, comm_r),
                      challenges |-> Append(pub_inputs.challenges, challenges')]
    /\ cIdx' = 0
    /\ leafs_r' = <<>>
    /\ paths_r' = <<>>
    /\ ppc' = "read_leaf"
    /\ UNCHANGED <<variant, cfg, rng, randomness, sector_index, replica, tree_r, root_r,
                   comm_c, comm_r, priv_inputs, pub_inputs_vec, result,
                   panicMsg, errors, tamper, kdfVars>>

\* One element of `let leafs_r = challenges.iter().enumerate().map(...)`.
ReadLeaf ==
    /\ ppc = "read_leaf"
    /\ cIdx < Len(challenges)
    /\ LET c == challenges[cIdx + 1]
           slice == ReplicaSlice(replica, LeafStart(c))
           decoded == IF slice.some THEN FromReprVartime(slice.val) ELSE None
           got == LeafOrPanic(decoded)
       IN IF ~slice.some
          THEN /\ ppc' = "panicked"
               /\ panicMsg' = "range end index out of range for slice"
               /\ UNCHANGED <<cIdx, leafs_r, errors>>
          ELSE /\ errors' = errors + (IF decoded.some THEN 0 ELSE 1)
               /\ IF got.panic
                  THEN /\ ppc' = "panicked"
                       /\ panicMsg' = "leaf bytes are not a valid field element"
                       /\ UNCHANGED <<cIdx, leafs_r>>
                  ELSE /\ leafs_r' = Append(leafs_r, got.leaf)
                       /\ panicMsg' = panicMsg
                       /\ IF cIdx + 1 = Len(challenges)
                          THEN ppc' = "gen_proof" /\ cIdx' = 0
                          ELSE ppc' = ppc /\ cIdx' = cIdx + 1
    /\ UNCHANGED <<variant, cfg, rng, randomness, sector_index, replica, tree_r, root_r,
                   comm_c, comm_r, challenges, paths_r, pub_inputs, priv_inputs,
                   pub_inputs_vec, result, tamper, kdfVars>>

\* One element of `let paths_r = challenges.iter().enumerate().map(...)`.
GenerateProof ==
    /\ ppc = "gen_proof"
    /\ cIdx < Len(challenges)
    /\ \E storeOk \in BOOLEAN :
        LET c == challenges[cIdx + 1]
            res == GenProof(tree_r, LevelArities(cfg), c, storeOk)
            got == ProofOrPanic(res)
        IN /\ errors' = errors + (IF res.tag = "Ok" THEN 0 ELSE 1)
           /\ IF got.panic
              THEN /\ ppc' = "panicked"
                   /\ panicMsg' = "failed to generate merkle proof"
                   /\ UNCHANGED <<cIdx, paths_r>>
              ELSE /\ paths_r' = Append(paths_r, got.path)
                   /\ panicMsg' = panicMsg
                   /\ IF cIdx + 1 = Len(challenges)
                      THEN ppc' = (IF variant = "winning" THEN "build" ELSE "push_sector")
                           /\ cIdx' = 0
                      ELSE ppc' = ppc /\ cIdx' = cIdx + 1
    /\ UNCHANGED <<variant, cfg, rng, randomness, sector_index, replica, tree_r, root_r,
                   comm_c, comm_r, challenges, leafs_r, pub_inputs, priv_inputs,
                   pub_inputs_vec, result, tamper, kdfVars>>

\* let pub_inputs = winning::PublicInputs { comm_r, challenges };
\* let pub_inputs_vec = pub_inputs.to_vec();
\* let priv_inputs = winning::PrivateInputs { comm_c, root_r, leafs_r, paths_r };
\* let circ = WinningPostCircuit { pub_inputs, priv_inputs };
WinningBuild ==
    /\ ppc = "build"
    /\ pub_inputs' = [comms_r |-> <<comm_r>>, challenges |-> <<challenges>>]
    /\ pub_inputs_vec' = ToVec(pub_inputs')
    /\ priv_inputs' = <<SectorProof(comm_c, root_r, leafs_r, paths_r)>>
    /\ ppc' = "built"
    /\ UNCHANGED <<variant, cfg, rng, randomness, sector_index, replica, tree_r, root_r,
                   comm_c, comm_r, challenges, cIdx, leafs_r, paths_r, result,
                   panicMsg, errors, tamper, kdfVars>>

\* priv_inputs.sector_proofs.push(SectorProof { .. }); and the loop's next
\* round, with the round's locals dropped.
WindowPushSector ==
    /\ ppc = "push_sector"
    /\ priv_inputs' = Append(priv_inputs, SectorProof(comm_c, root_r, leafs_r, paths_r))
    /\ sector_index' = sector_index + 1
    /\ ppc' = IF sector_index + 1 < SectorCount THEN "generate_tree" ELSE "window_build"
    /\ replica' = <<>> /\ tree_r' = <<>> /\ root_r' = 0 /\ comm_c' = 0 /\ comm_r' = 0
    /\ challenges' = <<>> /\ leafs_r' = <<>> /\ paths_r' = <<>>
    /\ UNCHANGED <<variant, cfg, rng, randomness, cIdx, pub_inputs, pub_inputs_vec,
                   result, panicMsg, errors, tamper, kdfVars>>

\* let pub_inputs_vec = pub_inputs.to_vec();
\* let circ = WindowPostCircuit { pub_inputs, priv_inputs };
WindowBuild ==
    /\ ppc = "window_build"
    /\ pub_inputs_vec' = ToVec(pub_inputs)
    /\ ppc' = "built"
    /\ UNCHANGED <<variant, cfg, rng, randomness, sector_index, replica, tree_r, root_r,
                   comm_c, comm_r, challenges, cIdx, leafs_r, paths_r, pub_inputs,
                   priv_inputs, result, panicMsg, errors, tamper, kdfVars>>

----------------------------------------------------------------------------
(* The circuits *)

\* The siblings of one level with the node on the way up put at its place.
InsertAt(sibs, pos, x) ==
    [k \in 1..(Len(sibs) + 1) |->
        IF k - 1 < pos THEN sibs[k] ELSE IF k - 1 = pos THEN x ELSE sibs[k - 1]]

\* MerklePathGadget: the root the leaf and its path hash up to, the leaf's
\* place at every level taken from the challenge.
RECURSIVE PathRoot(_, _, _, _, _)
PathRoot(cur, path, c, ars, l) ==
    IF l > Len(ars) THEN cur
    ELSE PathRoot(Hash(InsertAt(path[l], (c \div Stride(ars, l - 1)) % ars[l], cur)),
                  path, c, ars, l + 1)

PathShapeOk(path, ars) ==
    /\ Len(path) = Len(ars)
    /\ \A l \in 1..Len(ars) : Len(path[l]) = ars[l] - 1

\* The constraints of one challenge of one sector.
ChallengeOk(proof, chals, ars, i) ==
    /\ i <= Len(proof.leafs_r) /\ i <= Len(proof.paths_r)
    /\ PathShapeOk(proof.paths_r[i], ars)
    /\ PathRoot(proof.leafs_r[i], proof.paths_r[i], chals[i], ars, 1) = proof.root_r

\* The Merkle constraints of one sector: every challenge of the sector.
SectorPathsOkFirstOnly(proof, chals, ars) == ChallengeOk(proof, chals, ars, 1)
SectorPathsOk(proof, chals, ars) == \A i \in 1..Len(chals) : ChallengeOk(proof, chals, ars, i)

\* CommitmentGadget: comm_r as the circuit computes it from the witness.
Bind(cc, rr) == Hash2(cc, rr)

\* What the circuit exposes for one sector: the comm_r it computed, then the
\* sector's challenges.
SectorExposed(proof, chals) == <<Bind(proof.comm_c, proof.root_r)>> \o chals

\* WinningPostCircuit under MockProver: the exposed values equal the instance
\* vector and every constraint holds.
WinningSatisfied(pub, priv, instance, ars) ==
    /\ Len(priv) = 1 /\ Len(pub.challenges) = 1
    /\ SectorExposed(priv[1], pub.challenges[1]) = instance
    /\ SectorPathsOk(priv[1], pub.challenges[1], ars)

\* WindowPostCircuit under MockProver: the same per sector, sector i of the
\* public inputs with sector proof i.
WindowSectorOkNext(pub, priv, ars, s) ==
    SectorPathsOk(priv[(s % Len(priv)) + 1], pub.challenges[s], ars)
WindowSectorOk(pub, priv, ars, s) == SectorPathsOk(priv[s], pub.challenges[s], ars)

WindowSatisfied(pub, priv, instance, ars) ==
    /\ Len(priv) = Len(pub.challenges)
    /\ Flatten([s \in 1..Len(priv) |-> SectorExposed(priv[s], pub.challenges[s])]) = instance
    /\ \A s \in 1..Len(priv) : WindowSectorOk(pub, priv, ars, s)

Satisfied(pub, priv, instance) ==
    IF variant = "winning"
    THEN WinningSatisfied(pub, priv, instance, LevelArities(cfg))
    ELSE WindowSatisfied(pub, priv, instance, LevelArities(cfg))

\* let prover = MockProver::run(circ.k(), &circ, pub_inputs_vec).unwrap();
\* assert!(prover.verify().is_ok());
RunProver ==
    /\ ppc = "built"
    /\ result' = IF Satisfied(pub_inputs, priv_inputs, pub_inputs_vec)
                 THEN "satisfied" ELSE "unsatisfied"
    /\ ppc' = "done"
    /\ UNCHANGED <<variant, cfg, rng, randomness, sector_index, replica, tree_r, root_r,
                   comm_c, comm_r, challenges, cIdx, leafs_r, paths_r, pub_inputs,
                   priv_inputs, pub_inputs_vec, panicMsg, errors, tamper, kdfVars>>

----------------------------------------------------------------------------
(* The negative path: one change to the witness of the built circuit, the   *)
(* public inputs left as they are.                                          *)

FieldValues == 0..(FieldModulus - 1)

Tampered(kind, s) == [kind |-> kind, sector |-> s, orig |-> priv_inputs]

postBuilt == <<ppc, variant, cfg, rng, randomness, sector_index, replica, tree_r, root_r,
               comm_c, comm_r, challenges, cIdx, leafs_r, paths_r, pub_inputs,
               pub_inputs_vec, result, panicMsg, errors, kdfVars>>

TamperLeaf ==
    /\ ppc = "built" /\ tamper = NoTamper
    /\ \E s \in 1..Len(priv_inputs) : \E i \in 1..Len(priv_inputs[s].leafs_r) :
       \E v \in FieldValues \ {priv_inputs[s].leafs_r[i]} :
        /\ priv_inputs' = [priv_inputs EXCEPT ![s].leafs_r[i] = v]
        /\ tamper' = Tampered("leaf", s)
    /\ UNCHANGED postBuilt

TamperSibling ==
    /\ ppc = "built" /\ tamper = NoTamper
    /\ \E s \in 1..Len(priv_inputs) : \E i \in 1..Len(priv_inputs[s].paths_r) :
       \E l \in 1..Len(priv_inputs[s].paths_r[i]) :
       \E k \in 1..Len(priv_inputs[s].paths_r[i][l]) :
       \E v \in FieldValues \ {priv_inputs[s].paths_r[i][l][k]} :
        /\ priv_inputs' = [priv_inputs EXCEPT ![s].paths_r[i][l][k] = v]
        /\ tamper' = Tampered("sibling", s)
    /\ UNCHANGED postBuilt

TamperCommC ==
    /\ ppc = "built" /\ tamper = NoTamper
    /\ \E s \in 1..Len(priv_inputs) : \E v \in FieldValues \ {priv_inputs[s].comm_c} :
        /\ priv_inputs' = [priv_inputs EXCEPT ![s].comm_c = v]
        /\ tamper' = Tampered("comm_c", s)
    /\ UNCHANGED postBuilt

TamperRootR ==
    /\ ppc = "built" /\ tamper = NoTamper
    /\ \E s \in 1..Len(priv_inputs) : \E v \in FieldValues \ {priv_inputs[s].root_r} :
        /\ priv_inputs' = [priv_inputs EXCEPT ![s].root_r = v]
        /\ tamper' = Tampered("root_r", s)
    /\ UNCHANGED postBuilt

\* Sector proofs s and t handed over in each other's place.
MispairSectors ==
    /\ ppc = "built" /\ tamper = NoTamper
    /\ variant = "window"
    /\ \E s \in 1..Len(priv_inputs) : \E t \in (s + 1)..Len(priv_inputs) :
        /\ priv_inputs' = [priv_inputs EXCEPT ![s] = priv_inputs[t], ![t] = priv_inputs[s]]
        /\ tamper' = [kind |-> "mispair", sector |-> s, orig |-> priv_inputs]
    /\ UNCHANGED postBuilt

PostNext ==
    \/ DrawRandomness
    \/ GenerateTree
    \/ Commit
    \/ WinningChallenges
    \/ WindowChallenges
    \/ ReadLeaf
    \/ GenerateProof
    \/ WinningBuild
    \/ WindowPushSector
    \/ WindowBuild
    \/ RunProver
    \/ TamperLeaf
    \/ TamperSibling
    \/ TamperCommC
    \/ TamperRootR
    \/ MispairSectors

PostSpec == PostInit /\ [][PostNext]_vars

----------------------------------------------------------------------------
(* Claims about the PoSt circuits and their harness, checked under PostSpec *)

ProverRan == ppc = "done"
SingleChange == tamper.kind \in {"leaf", "sibling", "comm_c", "root_r"}

\* C1: a circuit built from honest data (no panic on the way, the witness
\* not changed after the build) is reported satisfied, Winning and Window,
\* for every configuration.
C1_HonestCircuitSatisfied ==
    (ProverRan /\ tamper = NoTamper) => result = "satisfied"

C1_Witness ==
    /\ ProverRan /\ tamper = NoTamper
    /\ variant = "window"
    /\ cfg = [U |-> 8, V |-> 8, W |-> 2, nodes |-> 1024]
    /\ Len(priv_inputs) = SectorsPerPartition
    /\ errors = 0
    /\ result = "satisfied"

\* C2: with one witness value changed and the public inputs as they were,
\* the circuit that was satisfied is unsatisfied; and a satisfied circuit has
\* every challenge's leaf and path hashing to its sector's root_r and every
\* public comm_r equal to Hash(comm_c, root_r).
C2_SingleChangeUnsatisfied ==
    LET ars == LevelArities(cfg)
    IN /\ (ProverRan /\ SingleChange) =>
            /\ result = "unsatisfied"
            /\ pub_inputs_vec = ToVec(pub_inputs)
            /\ Satisfied(pub_inputs, tamper.orig, pub_inputs_vec)
       /\ (ProverRan /\ result = "satisfied") =>
            \A s \in 1..Len(priv_inputs) :
                /\ pub_inputs.comms_r[s] = Hash2(priv_inputs[s].comm_c, priv_inputs[s].root_r)
                /\ \A i \in 1..Len(pub_inputs.challenges[s]) :
                    PathRoot(priv_inputs[s].leafs_r[i], priv_inputs[s].paths_r[i],
                             pub_inputs.challenges[s][i], ars, 1) = priv_inputs[s].root_r

\* A sibling of the last challenge of a Winning proof was changed.
C2_Witness ==
    /\ ProverRan
    /\ variant = "winning"
    /\ tamper.kind = "sibling"
    /\ tamper.orig[1].paths_r[WinningChallengeCount] # priv_inputs[1].paths_r[WinningChallengeCount]
    /\ result = "unsatisfied"

InRange(c) == 0 <= c /\ c < cfg.nodes

\* C4: every challenge handed out is a leaf index of the sector, so the
\* 32-byte slice at challenge * 32 lies inside the replica and the tree has a
\* proof for it.
C4_ChallengesInRange ==
    /\ \A s \in 1..Len(pub_inputs.challenges) : \A i \in 1..Len(pub_inputs.challenges[s]) :
            InRange(pub_inputs.challenges[s][i])
    /\ \A i \in 1..Len(challenges) :
            /\ InRange(challenges[i])
            /\ Len(challenges) = ChallengeCount
            /\ replica # <<>> =>
                (/\ LeafStart(challenges[i]) + LeafBytes <= Len(replica) * LeafBytes
                 /\ GenProof(tree_r, LevelArities(cfg), challenges[i], TRUE).tag = "Ok")
    /\ panicMsg # "range end index out of range for slice"

\* The second sector of a Window proof is being read at a leaf of the upper
\* half of the replica.
C4_Witness ==
    /\ ppc = "gen_proof"
    /\ variant = "window" /\ sector_index = 1
    /\ \E i \in 1..Len(challenges) : 2 * challenges[i] >= cfg.nodes
    /\ Len(leafs_r) = WindowChallengeCount

\* Sector s of a Window circuit on its own, as a Winning-style check of its
\* public inputs against its sector proof.
SectorAlone(s) ==
    LET n == 1 + Len(pub_inputs.challenges[s])
    IN WinningSatisfied([comms_r |-> <<pub_inputs.comms_r[s]>>,
                         challenges |-> <<pub_inputs.challenges[s]>>],
                        <<priv_inputs[s]>>,
                        SubSeq(pub_inputs_vec, (s - 1) * n + 1, s * n),
                        LevelArities(cfg))

\* C6: a Window circuit is satisfied exactly when every sector on its own
\* passes; a change to one sector's witness makes it unsatisfied while the
\* other sectors still pass on their own; sector proofs handed over in each
\* other's place, their comm_r different, make it unsatisfied.
C6_SectorsIndependent ==
    (ProverRan /\ variant = "window") =>
        /\ (result = "satisfied") <=> (\A s \in 1..Len(pub_inputs.comms_r) : SectorAlone(s))
        /\ SingleChange =>
            /\ result = "unsatisfied"
            /\ ~SectorAlone(tamper.sector)
            /\ \A t \in 1..Len(pub_inputs.comms_r) : t # tamper.sector => SectorAlone(t)
        /\ (tamper.kind = "mispair"
                /\ \E s, t \in 1..Len(pub_inputs.comms_r) :
                        /\ priv_inputs[s] = tamper.orig[t] /\ s # t
                        /\ pub_inputs.comms_r[s] # pub_inputs.comms_r[t])
            => result = "unsatisfied"

\* Two sector proofs with different comm_r were handed over in each other's place.
C6_Witness ==
    /\ ProverRan /\ variant = "window"
    /\ tamper.kind = "mispair"
    /\ pub_inputs.comms_r[1] # pub_inputs.comms_r[2]
    /\ priv_inputs[1] = tamper.orig[2]
    /\ result = "unsatisfied"

CircuitBuilt == ppc \in {"built", "done"}

\* C7: after a decode or proof-generation failure the test has panicked, no
\* circuit was built and the prover never ran; a circuit that is built holds,
\* for every sector, a leaf and a full path for every challenge, all produced
\* without a failure.
C7_NoPartialCircuit ==
    /\ errors > 0 => (ppc = "panicked" /\ result = "none" /\ pub_inputs_vec = <<>>)
    /\ ppc = "panicked" => result = "none"
    /\ CircuitBuilt =>
        /\ errors = 0
        /\ Len(priv_inputs) = SectorCount
        /\ \A s \in 1..Len(priv_inputs) :
            /\ Len(priv_inputs[s].leafs_r) = ChallengeCount
            /\ Len(priv_inputs[s].paths_r) = ChallengeCount
            /\ \A i \in 1..ChallengeCount :
                PathShapeOk(priv_inputs[s].paths_r[i], LevelArities(cfg))

\* Proof generation failed for the last challenge of the second sector.
C7_Witness ==
    /\ ppc = "panicked"
    /\ panicMsg = "failed to generate merkle proof"
    /\ variant = "window" /\ sector_index = 1
    /\ Len(paths_r) = WindowChallengeCount - 1
    /\ errors = 1
    /\ result = "none"

====
